---------------------------- MODULE Spec2Model ----------------------------
(***************************************************************************)
(* A model of the sophos scheduler plugins: the pipeline helpers of        *)
(* package sophos (AreLesserOrderPodsScheduled, ArePodsNeighbors,          *)
(* GetSharedChainsSlos, GetAppTraffic, GetNodeLatency), the NetworkSloAware *)
(* PreFilter gate with its queueing hint, the NetworkAware scorer and the  *)
(* NormalizeScore pass shared by the three plugins.                        *)
(*                                                                         *)
(* Label and annotation values are Go strings.  A value is modelled as the *)
(* sequence of its characters, so that strconv.Atoi, strconv.ParseFloat    *)
(* and strconv.Itoa are computed on the text and not assumed.  A float64   *)
(* is modelled in fixed point, as a whole number of tenths (Scale); the    *)
(* value strings the model draws have at most one fractional digit, so     *)
(* every float the model computes with is exact.                           *)
(***************************************************************************)
EXTENDS Integers, Sequences, FiniteSets, TLC

VARIABLES
    pod,          \* topology: the first argument (*v1.Pod)
    peerPod,      \* topology: the second argument (*v1.Pod)
    neighbors,    \* topology: the results of ArePodsNeighbors, "ab" for (pod, peerPod), "ba" swapped
    chainsSlos,   \* topology: the GetSharedChainsSlos(pod, peerPod) call made, if any
    cluster,      \* gate: the pods of the API server, by name
    phase,        \* gate: each pod's admission state, PENDING, READY or PLACED
    queued,       \* gate: whether a PENDING pod is queued for a scheduling cycle
    gateCall,     \* gate: the PreFilter call that returned in the last step, if any
    gateRun,      \* gate: each pod's PreFilter call in progress, if any (the reads made one by one)
    scoresIn,     \* normalize: the framework.NodeScoreList handed to NormalizeScore
    scores,       \* normalize: the list after NormalizeScore, <<>> before the call
    nodes,        \* score: the nodes of the snapshot, by name
    candidate,    \* score: the nodeName argument of Score
    scoreCall,    \* score: the Score(pod, candidate) call that has returned, if any
    replicaSets,  \* score: the ReplicaSets of the API server, by name
    deployments   \* score: the Deployments of the API server, by name

topoVars == <<pod, peerPod, neighbors, chainsSlos>>
gateVars == <<cluster, phase, queued, gateCall, gateRun>>
normVars == <<scoresIn, scores>>
scoreVars == <<nodes, candidate, scoreCall, replicaSets, deployments>>

vars == <<topoVars, gateVars, normVars, scoreVars>>

(***************************************************************************)
(* Strings and strconv                                                     *)
(***************************************************************************)

DigitChars == {"0", "1", "2", "3", "4", "5", "6", "7", "8", "9"}

\* The fixed-point unit: a float64 f is held as the integer f * Scale, one
\* decimal digit after the point.
Scale == Cardinality(DigitChars)

Abs(x) == IF x < 0 THEN -x ELSE x

\* Go's integer division and float-to-integer conversion truncate toward zero.
TruncDiv(a, b) ==
    IF (a >= 0) = (b > 0) THEN Abs(a) \div Abs(b) ELSE -(Abs(a) \div Abs(b))

DigitVal(c) ==
    CASE c = "0" -> 0 [] c = "1" -> 1 [] c = "2" -> 2 [] c = "3" -> 3
      [] c = "4" -> 4 [] c = "5" -> 5 [] c = "6" -> 6 [] c = "7" -> 7
      [] c = "8" -> 8 [] c = "9" -> 9

DigitChar(d) ==
    CASE d = 0 -> "0" [] d = 1 -> "1" [] d = 2 -> "2" [] d = 3 -> "3"
      [] d = 4 -> "4" [] d = 5 -> "5" [] d = 6 -> "6" [] d = 7 -> "7"
      [] d = 8 -> "8" [] d = 9 -> "9"

AllDigits(s) == Len(s) > 0 /\ \A i \in 1..Len(s) : s[i] \in DigitChars

RECURSIVE DigitsVal(_)
DigitsVal(s) ==
    IF s = <<>> THEN 0
    ELSE 10 * DigitsVal(SubSeq(s, 1, Len(s) - 1)) + DigitVal(s[Len(s)])

\* strconv.Atoi: an optional sign and decimal digits; anything else is an error.
Atoi(s) ==
    IF AllDigits(s) THEN [err |-> FALSE, val |-> DigitsVal(s)]
    ELSE IF Len(s) > 1 /\ s[1] \in {"+", "-"} /\ AllDigits(Tail(s))
         THEN [err |-> FALSE,
               val |-> IF s[1] = "-" THEN -DigitsVal(Tail(s)) ELSE DigitsVal(Tail(s))]
         ELSE [err |-> TRUE, val |-> 0]

RECURSIVE NatDigits(_)
NatDigits(n) ==
    IF n < 10 THEN <<DigitChar(n)>>
    ELSE Append(NatDigits(n \div 10), DigitChar(n % 10))

\* strconv.Itoa: the canonical decimal text of an integer.
Itoa(n) == IF n < 0 THEN <<"-">> \o NatDigits(-n) ELSE NatDigits(n)

\* strconv.ParseFloat(s, 64) on the decimal texts of the model (digits, then
\* optionally a point and one digit).  On a syntax error Go returns 0 with the
\* error, and the callers that ignore the error go on with that 0.
ParseFloat(s) ==
    IF AllDigits(s) THEN [err |-> FALSE, val |-> Scale * DigitsVal(s)]
    ELSE IF /\ Len(s) >= 3
            /\ s[Len(s) - 1] = "."
            /\ AllDigits(SubSeq(s, 1, Len(s) - 2))
            /\ s[Len(s)] \in DigitChars
         THEN [err |-> FALSE,
               val |-> Scale * DigitsVal(SubSeq(s, 1, Len(s) - 2)) + DigitVal(s[Len(s)])]
         ELSE [err |-> TRUE, val |-> 0]

(***************************************************************************)
(* Pods: labels and annotations are maps from keys to value strings.       *)
(***************************************************************************)

\* The label value that stands for "the key is not in the map" when a map is
\* written down as a total function; it is no character sequence.
Absent == <<"(absent)">>

MkMap(f) == [k \in {x \in DOMAIN f : f[x] # Absent} |-> f[k]]

Has(m, k) == k \in DOMAIN m

\* The label keys of the model that strings.HasPrefix(key, "chain-") accepts.
ChainKeys == {"chain-a", "chain-b"}

HasChainPrefix(key) == key \in ChainKeys

\* key + "-slo"
SloKey(key) == CASE key = "chain-a" -> "chain-a-slo" [] key = "chain-b" -> "chain-b-slo"

\* All orders in which a set of keys can be enumerated.
Orders(S) == {o \in [1..Cardinality(S) -> S] : \A k \in S : \E i \in DOMAIN o : o[i] = k}

\* The orders in which Go's `range pod.GetLabels()` can visit the chain- keys
\* of a pod (map iteration order is unspecified; other keys are skipped).
RangeOrders(p) == Orders({k \in DOMAIN p.labels : HasChainPrefix(k)})

(***************************************************************************)
(* ArePodsNeighbors                                                        *)
(***************************************************************************)

\* The mutant of NeighborsLoop: the difference taken without math.Abs.
RECURSIVE NeighborsLoopNoAbs(_, _, _, _)
NeighborsLoopNoAbs(p, q, order, i) ==
    IF i > Len(order) THEN FALSE
    ELSE LET key == order[i]
             index == ParseFloat(p.labels[key]).val
         IN  IF /\ Has(q.labels, key)
                /\ TruncDiv(index - ParseFloat(q.labels[key]).val, Scale) = 1
             THEN TRUE
             ELSE NeighborsLoopNoAbs(p, q, order, i + 1)

\* The loop over the first pod's labels: a parse error is logged and the
\* zero value ParseFloat returned is used.
RECURSIVE NeighborsLoop(_, _, _, _)
NeighborsLoop(p, q, order, i) ==
    IF i > Len(order) THEN FALSE
    ELSE LET key == order[i]
             index == ParseFloat(p.labels[key]).val
         IN  IF /\ Has(q.labels, key)
                /\ TruncDiv(Abs(index - ParseFloat(q.labels[key]).val), Scale) = 1
             THEN TRUE
             ELSE NeighborsLoop(p, q, order, i + 1)

ArePodsNeighbors(p, q, order) ==
    IF ~Has(p.labels, "app-group") THEN FALSE
    ELSE IF ~Has(q.labels, "app-group") THEN FALSE
    ELSE IF p.labels["app-group"] # q.labels["app-group"] THEN FALSE
    ELSE NeighborsLoop(p, q, order, 1)

(***************************************************************************)
(* GetSharedChainsSlos                                                     *)
(***************************************************************************)

\* The loop over the first pod's labels, with the slice built so far.  Every
\* failure inside the loop returns the slice as it stands.
RECURSIVE SlosLoop(_, _, _, _, _)
SlosLoop(p, q, order, i, acc) ==
    IF i > Len(order) THEN acc
    ELSE LET key == order[i]
             index == ParseFloat(p.labels[key])
         IN  IF index.err THEN acc
             ELSE IF /\ Has(q.labels, key)
                     /\ TruncDiv(Abs(index.val - ParseFloat(q.labels[key]).val), Scale) = 1
                  THEN IF ~Has(p.annotations, SloKey(key)) THEN acc
                       ELSE LET chainSlo == ParseFloat(p.annotations[SloKey(key)])
                            IN  IF chainSlo.err THEN acc
                                ELSE SlosLoop(p, q, order, i + 1, Append(acc, chainSlo.val))
                  ELSE SlosLoop(p, q, order, i + 1, acc)

GetSharedChainsSlos(p, q, order) ==
    IF ~Has(p.labels, "app-group") THEN <<>>
    ELSE IF ~Has(q.labels, "app-group") THEN <<>>
    ELSE IF p.labels["app-group"] # q.labels["app-group"] THEN <<>>
    ELSE SlosLoop(p, q, order, 1, <<>>)

(***************************************************************************)
(* The topology specification: two pods are drawn, and the helpers are     *)
(* called on them.                                                         *)
(***************************************************************************)

G1 == <<"g", "1">>
G2 == <<"g", "2">>

\* Stage values: integers, a fraction (a float, not an integer), and a text
\* that neither Atoi nor ParseFloat parses.
StageValues == {<<"0">>, <<"1">>, <<"2">>, <<"1", ".", "5">>, <<"x">>}

SloValues == {<<"2", "0">>, <<"x">>}

TopoPods ==
    { [labels |-> MkMap("app-group" :> g @@ "chain-a" :> a @@ "chain-b" :> b),
       annotations |-> MkMap("chain-a-slo" :> sa @@ "chain-b-slo" :> sb)] :
        g \in {Absent, G1}, a \in StageValues \cup {Absent},
        b \in {Absent, <<"0">>, <<"1">>},
        sa \in SloValues \cup {Absent}, sb \in {Absent, <<"4", "0">>} }

TopoPeers ==
    { [labels |-> MkMap("app-group" :> g @@ "chain-a" :> a @@ "chain-b" :> b),
       annotations |-> MkMap("chain-a-slo" :> Absent)] :
        g \in {Absent, G1, G2}, a \in StageValues \cup {Absent},
        b \in {Absent, <<"0">>, <<"1">>} }

\* The empty map: no call has returned yet.
NoResult == [d \in {} |-> FALSE]

\* The variables of the other specifications stay at rest.
IdleGate ==
    /\ cluster = <<>> /\ phase = <<>> /\ queued = <<>> /\ gateCall = <<>>
    /\ gateRun = <<>>

IdleTopology == pod = <<>> /\ peerPod = <<>> /\ neighbors = <<>> /\ chainsSlos = <<>>

IdleNormalize == scoresIn = <<>> /\ scores = <<>>

IdleScore ==
    /\ nodes = <<>> /\ candidate = "" /\ scoreCall = <<>>
    /\ replicaSets = <<>> /\ deployments = <<>>

InitTopology ==
    /\ pod \in TopoPods
    /\ peerPod \in TopoPeers
    /\ neighbors = NoResult
    /\ chainsSlos = <<>>
    /\ IdleGate
    /\ IdleNormalize
    /\ IdleScore

\* ArePodsNeighbors(pod, peerPod)
CallNeighbors ==
    /\ ~Has(neighbors, "ab")
    /\ \E order \in RangeOrders(pod) :
         neighbors' = ("ab" :> ArePodsNeighbors(pod, peerPod, order)) @@ neighbors
    /\ UNCHANGED <<pod, peerPod, chainsSlos, gateVars, normVars, scoreVars>>

\* ArePodsNeighbors(peerPod, pod)
CallNeighborsSwapped ==
    /\ ~Has(neighbors, "ba")
    /\ \E order \in RangeOrders(peerPod) :
         neighbors' = ("ba" :> ArePodsNeighbors(peerPod, pod, order)) @@ neighbors
    /\ UNCHANGED <<pod, peerPod, chainsSlos, gateVars, normVars, scoreVars>>

\* GetSharedChainsSlos(pod, peerPod): the call is recorded with the order in
\* which the labels were visited.
CallSharedSlos ==
    /\ chainsSlos = <<>>
    /\ \E order \in RangeOrders(pod) :
         chainsSlos' = <<[order |-> order, slos |-> GetSharedChainsSlos(pod, peerPod, order)]>>
    /\ UNCHANGED <<pod, peerPod, neighbors, gateVars, normVars, scoreVars>>

NextTopology == CallNeighbors \/ CallNeighborsSwapped \/ CallSharedSlos

SpecTopology == InitTopology /\ [][NextTopology]_vars


(***************************************************************************)
(* AreLesserOrderPodsScheduled and the PreFilter gate                      *)
(***************************************************************************)

\* Pods(namespace).List with a label selector: the pods of the namespace
\* that carry every selector label with exactly the selector's value.
ListPods(pods, namespace, selector) ==
    {n \in DOMAIN pods :
        /\ pods[n].namespace = namespace
        /\ \A k \in DOMAIN selector :
             Has(pods[n].labels, k) /\ pods[n].labels[k] = selector[k]}

\* The mutant of GateLoop: the test for an empty list left out.
RECURSIVE GateLoopNoEmptyTest(_, _, _, _, _)
GateLoopNoEmptyTest(p, order, i, pods, failing) ==
    IF i > Len(order) THEN [ready |-> TRUE, log |-> "none"]
    ELSE LET key == order[i]
             index == Atoi(p.labels[key])
             lesserOrderPods ==
                 ListPods(pods, p.namespace,
                          "app-group" :> p.labels["app-group"] @@ key :> Itoa(index.val - 1))
         IN  IF index.err
             THEN [ready |-> FALSE, log |-> "error parsing chain label value"]
             ELSE IF index.val > 0
             THEN IF key \in failing
                  THEN [ready |-> FALSE, log |-> "error getting lesser order pods"]
                  ELSE IF \E n \in lesserOrderPods : pods[n].nodeName = ""
                  THEN [ready |-> FALSE, log |-> "none"]
                  ELSE GateLoopNoEmptyTest(p, order, i + 1, pods, failing)
             ELSE GateLoopNoEmptyTest(p, order, i + 1, pods, failing)

\* A second mutant of GateLoop: the test of the listed pods' node names left
\* out.
RECURSIVE GateLoopNoBoundTest(_, _, _, _, _)
GateLoopNoBoundTest(p, order, i, pods, failing) ==
    IF i > Len(order) THEN [ready |-> TRUE, log |-> "none"]
    ELSE LET key == order[i]
             index == Atoi(p.labels[key])
             lesserOrderPods ==
                 ListPods(pods, p.namespace,
                          "app-group" :> p.labels["app-group"] @@ key :> Itoa(index.val - 1))
         IN  IF index.err
             THEN [ready |-> FALSE, log |-> "error parsing chain label value"]
             ELSE IF index.val > 0
             THEN IF key \in failing
                  THEN [ready |-> FALSE, log |-> "error getting lesser order pods"]
                  ELSE IF lesserOrderPods = {}
                  THEN [ready |-> FALSE, log |-> "none"]
                  ELSE GateLoopNoBoundTest(p, order, i + 1, pods, failing)
             ELSE GateLoopNoBoundTest(p, order, i + 1, pods, failing)

\* The loop over the pod's labels.  `failing` holds the keys whose List call
\* returns an error; the log line tells the reason a false is returned for.
RECURSIVE GateLoop(_, _, _, _, _)
GateLoop(p, order, i, pods, failing) ==
    IF i > Len(order) THEN [ready |-> TRUE, log |-> "none"]
    ELSE LET key == order[i]
             index == Atoi(p.labels[key])
             lesserOrderPods ==
                 ListPods(pods, p.namespace,
                          "app-group" :> p.labels["app-group"] @@ key :> Itoa(index.val - 1))
         IN  IF index.err
             THEN [ready |-> FALSE, log |-> "error parsing chain label value"]
             ELSE IF index.val > 0
             THEN IF key \in failing
                  THEN [ready |-> FALSE, log |-> "error getting lesser order pods"]
                  ELSE IF lesserOrderPods = {}
                  THEN [ready |-> FALSE, log |-> "none"]
                  ELSE IF \E n \in lesserOrderPods : pods[n].nodeName = ""
                  THEN [ready |-> FALSE, log |-> "none"]
                  ELSE GateLoop(p, order, i + 1, pods, failing)
             ELSE GateLoop(p, order, i + 1, pods, failing)

AreLesserOrderPodsScheduled(p, order, pods, failing) ==
    IF ~Has(p.labels, "app-group")
    THEN [ready |-> FALSE, log |-> "error getting app-group label"]
    ELSE GateLoop(p, order, 1, pods, failing)

\* framework.QueueingHint, an int: QueueSkip is 0 and Queue is 1.
Queue == 1

\* framework.Code, an int: the status codes of the scheduler framework, by
\* number (Success, Error, Unschedulable, UnschedulableAndUnresolvable, Wait,
\* Skip, Pending).
Success == 0

CodeName(c) ==
    CASE c = 0 -> "Success"
      [] c = 1 -> "Error"
      [] c = 2 -> "Unschedulable"
      [] c = 3 -> "UnschedulableAndUnresolvable"
      [] c = 4 -> "Wait"
      [] c = 5 -> "Skip"
      [] OTHER -> "Pending"

\* The status PreFilter returns: framework.Success when the gate is open,
\* and otherwise the conversion framework.Code(framework.Queue).
PreFilterStatus(ready) == IF ready THEN CodeName(Success) ELSE CodeName(Queue)

PodNames == {"p1", "p2", "p3"}

NodeNames == {"n1"}

\* PreFilter on a queued PENDING pod: one scheduling cycle's admission check.
\* On Success the pod goes on to scoring and binding; on any other status the
\* cycle ends and the pod waits, PENDING, to be queued again.
PreFilter(p, failing) ==
    /\ phase[p] = "PENDING"
    /\ queued[p]
    /\ gateRun[p] = <<>>
    /\ \E order \in RangeOrders(cluster[p]) :
         LET r == AreLesserOrderPodsScheduled(cluster[p], order, cluster, failing)
         IN  /\ phase' = [phase EXCEPT ![p] = IF r.ready THEN "READY" ELSE "PENDING"]
             /\ gateCall' = <<[pod |-> p, ready |-> r.ready, log |-> r.log,
                               code |-> PreFilterStatus(r.ready)]>>
    /\ queued' = [queued EXCEPT ![p] = FALSE]
    /\ UNCHANGED <<cluster, gateRun, topoVars, normVars, scoreVars>>

\* The mutant of isSchedulableAfterPodChange: the hint is QueueSkip (0), and a
\* Pod/Update event queues no pod.
IsSchedulableAfterPodChangeSkip(p) == 0

\* isSchedulableAfterPodChange: the queueing hint for a Pod/Update event.
IsSchedulableAfterPodChange(p) == Queue

\* A Pod/Update event (EventsToRegister): the hint is asked for every waiting
\* PENDING pod and Queue puts the pod back in the queue.
PodUpdateEvent ==
    /\ queued' = [p \in PodNames |->
                    IF phase[p] = "PENDING" /\ IsSchedulableAfterPodChange(p) = Queue
                    THEN TRUE ELSE queued[p]]
    /\ gateCall' = <<>>
    /\ UNCHANGED <<cluster, phase, gateRun, topoVars, normVars, scoreVars>>

\* The host scheduler scores and binds a READY pod to a node.
Bind(p, n) ==
    /\ phase[p] = "READY"
    /\ cluster' = [cluster EXCEPT ![p].nodeName = n]
    /\ phase' = [phase EXCEPT ![p] = "PLACED"]
    /\ gateCall' = <<>>
    /\ UNCHANGED <<queued, gateRun, topoVars, normVars, scoreVars>>

GateShapes1 ==
    { [namespace |-> "ns1",
       labels |-> MkMap("app-group" :> g @@ "chain-a" :> a @@ "chain-b" :> b)] :
        g \in {Absent, G1}, a \in {Absent, <<"0">>, <<"1">>, <<"x">>},
        b \in {Absent, <<"0">>, <<"1">>} }

GateShapes2 ==
    { [namespace |-> ns,
       labels |-> MkMap("app-group" :> g @@ "chain-a" :> a @@ "chain-b" :> b)] :
        ns \in {"ns1", "ns2"}, g \in {G1, G2}, a \in {<<"0">>, <<"0", "0">>, <<"1">>},
        b \in {Absent, <<"0">>} }

GateShapes3 ==
    { [namespace |-> "ns1",
       labels |-> MkMap("app-group" :> G1 @@ "chain-a" :> <<"0">> @@ "chain-b" :> b)] :
        b \in {Absent, <<"0">>} }

WithNode(shape, n) ==
    [namespace |-> shape.namespace, labels |-> shape.labels, nodeName |-> n]

\* Any cluster of three pods, each either bound already or waiting to be
\* scheduled.
InitGate ==
    /\ \E s1 \in GateShapes1, s2 \in GateShapes2, s3 \in GateShapes3,
          bound \in [PodNames -> NodeNames \cup {""}] :
         cluster = [n \in PodNames |->
                      WithNode(CASE n = "p1" -> s1 [] n = "p2" -> s2 [] n = "p3" -> s3,
                               bound[n])]
    /\ phase = [n \in PodNames |-> IF cluster[n].nodeName = "" THEN "PENDING" ELSE "PLACED"]
    /\ queued = [n \in PodNames |-> phase[n] = "PENDING"]
    /\ gateCall = <<>>
    /\ gateRun = [n \in PodNames |-> <<>>]
    /\ IdleTopology
    /\ IdleNormalize
    /\ IdleScore

NextGate ==
    \/ \E p \in PodNames, failing \in SUBSET ChainKeys : PreFilter(p, failing)
    \/ PodUpdateEvent
    \/ \E p \in PodNames, n \in NodeNames : Bind(p, n)

SpecGate == InitGate /\ [][NextGate]_vars

Spec == SpecGate

\* The scheduler keeps running cycles for queued pods, pod updates keep
\* arriving, READY pods are bound, and no List call fails for ever.
FairSpecGate ==
    /\ SpecGate
    /\ WF_vars(PodUpdateEvent)
    /\ \A p \in PodNames : SF_vars(PreFilter(p, {}))
    /\ \A p \in PodNames : WF_vars(\E n \in NodeNames : Bind(p, n))

(***************************************************************************)
(* The PreFilter gate read by read: every List call of                     *)
(* AreLesserOrderPodsScheduled reads the cluster as it is when the call is *)
(* made, and pods are bound between the reads of one PreFilter call.       *)
(***************************************************************************)

\* PreFilter returns for pod p with the answer r of the gate.
PreFilterReturn(p, r) ==
    /\ phase' = [phase EXCEPT ![p] = IF r.ready THEN "READY" ELSE "PENDING"]
    /\ gateCall' = <<[pod |-> p, ready |-> r.ready, log |-> r.log,
                      code |-> PreFilterStatus(r.ready)]>>
    /\ gateRun' = [gateRun EXCEPT ![p] = <<>>]

\* PreFilter is called on a queued PENDING pod: the app-group label is looked
\* up and the loop over the labels is entered, in some order of the keys.
PreFilterStart(p) ==
    /\ phase[p] = "PENDING"
    /\ queued[p]
    /\ gateRun[p] = <<>>
    /\ queued' = [queued EXCEPT ![p] = FALSE]
    /\ \E order \in RangeOrders(cluster[p]) :
         IF Has(cluster[p].labels, "app-group") /\ order # <<>>
         THEN /\ gateRun' = [gateRun EXCEPT ![p] = <<[order |-> order, i |-> 1]>>]
              /\ gateCall' = <<>>
              /\ UNCHANGED phase
         ELSE PreFilterReturn(p, AreLesserOrderPodsScheduled(cluster[p], order, cluster, {}))
    /\ UNCHANGED <<cluster, topoVars, normVars, scoreVars>>

\* One iteration of the loop of a call in progress: the key's value is
\* parsed and, for an index > 0, the pods one stage before are listed from
\* the cluster as it is now.  The call returns false from the iteration, or
\* true after the last one.
PreFilterStep(p, failing) ==
    /\ gateRun[p] # <<>>
    /\ LET run == gateRun[p][1]
           r == GateLoop(cluster[p], <<run.order[run.i]>>, 1, cluster, failing)
       IN  IF r.ready /\ run.i < Len(run.order)
           THEN /\ gateRun' = [gateRun EXCEPT ![p] = <<[run EXCEPT !.i = run.i + 1]>>]
                /\ gateCall' = <<>>
                /\ UNCHANGED phase
           ELSE PreFilterReturn(p, r)
    /\ UNCHANGED <<cluster, queued, topoVars, normVars, scoreVars>>

NextGateSteps ==
    \/ \E p \in PodNames : PreFilterStart(p)
    \/ \E p \in PodNames, failing \in {{}, ChainKeys} : PreFilterStep(p, failing)
    \/ PodUpdateEvent
    \/ \E p \in PodNames, n \in NodeNames : Bind(p, n)

SpecGateSteps == InitGate /\ [][NextGateSteps]_vars

(***************************************************************************)
(* NormalizeScore (the same code in the three plugins)                     *)
(***************************************************************************)

\* Scores are Go int64.  The model computes with two's complement integers
\* of IntBits bits, so that the wrap-around of the arithmetic of
\* NormalizeScore is within the reach of the check.
IntBits == 16

RECURSIVE Pow2(_)
Pow2(n) == IF n = 0 THEN 1 ELSE 2 * Pow2(n - 1)

\* math.MaxInt64 and the least int64, at the model's width.
MaxInt == Pow2(IntBits - 1) - 1
MinInt == -Pow2(IntBits - 1)

\* The value an integer operation leaves in a Go int64.
Wrap(x) == ((x - MinInt) % Pow2(IntBits)) + MinInt

\* framework.MinNodeScore and framework.MaxNodeScore.
MinNodeScore == 0
MaxNodeScore == 100

\* The first loop: the highest and the lowest score of the list.
RECURSIVE HighestLowest(_, _, _, _)
HighestLowest(list, i, highest, lowest) ==
    IF i > Len(list) THEN [highest |-> highest, lowest |-> lowest]
    ELSE HighestLowest(list, i + 1,
                       IF list[i].Score > highest THEN list[i].Score ELSE highest,
                       IF list[i].Score < lowest THEN list[i].Score ELSE lowest)

\* The mutant of NormalizeScore: the distance taken from the highest score.
NormalizeScoreFromHighest(list) ==
    LET hl == HighestLowest(list, 1, -MaxInt, MaxInt)
        oldRange == Wrap(hl.highest - hl.lowest)
        newRange == Wrap(MaxNodeScore - MinNodeScore)
    IN  [i \in 1..Len(list) |->
            [Name |-> list[i].Name,
             Score |-> IF oldRange = 0 THEN MinNodeScore
                       ELSE Wrap(Wrap(TruncDiv(Wrap(Wrap(hl.highest - list[i].Score) * newRange),
                                               oldRange))
                                 + MinNodeScore)]]

\* NormalizeScore: the list with every score rescaled, in int64 arithmetic.
NormalizeScore(list) ==
    LET hl == HighestLowest(list, 1, -MaxInt, MaxInt)
        oldRange == Wrap(hl.highest - hl.lowest)
        newRange == Wrap(MaxNodeScore - MinNodeScore)
    IN  [i \in 1..Len(list) |->
            [Name |-> list[i].Name,
             Score |-> IF oldRange = 0 THEN MinNodeScore
                       ELSE Wrap(Wrap(TruncDiv(Wrap(Wrap(list[i].Score - hl.lowest) * newRange),
                                               oldRange))
                                 + MinNodeScore)]]

\* The longest score list drawn.
MaxNodes == 3

NodeAt(i) == CASE i = 1 -> "n1" [] i = 2 -> "n2" [] i = 3 -> "n3" [] OTHER -> "n4"

\* The raw scores drawn: small ones, and the ends of the int64 range.
RawScores == {MinInt, -5, 0, 5, 10, 20, 30, MaxInt}

InitNormalize ==
    /\ \E n \in 1..MaxNodes, raw \in [1..MaxNodes -> RawScores] :
         scoresIn = [i \in 1..n |-> [Name |-> NodeAt(i), Score |-> raw[i]]]
    /\ scores = <<>>
    /\ IdleTopology
    /\ IdleGate
    /\ IdleScore

\* The framework calls NormalizeScore once on the scores of a cycle.
CallNormalizeScore ==
    /\ scores = <<>>
    /\ scores' = NormalizeScore(scoresIn)
    /\ UNCHANGED <<scoresIn, topoVars, gateVars, scoreVars>>

NextNormalize == CallNormalizeScore

SpecNormalize == InitNormalize /\ [][NextNormalize]_vars

(***************************************************************************)
(* GetAppTraffic, GetNodeLatency and NetworkAware.Score                    *)
(***************************************************************************)

AppA == <<"a">>
AppB == <<"b">>

\* "traffic." + peerApp
TrafficKey(app) == CASE app = AppA -> "traffic.a" [] app = AppB -> "traffic.b"

\* "network-latency." + peerNode.Name
LatencyKey(name) ==
    CASE name = "n1" -> "network-latency.n1" [] name = "n2" -> "network-latency.n2"

\* The mutant of GetAppTraffic: the comparison of the two app-groups left out.
GetAppTrafficAnyGroup(p, q) ==
    IF ~Has(p.labels, "app-group") THEN 0
    ELSE IF ~Has(q.labels, "app-group") THEN 0
    ELSE IF ~Has(q.labels, "app") THEN 0
    ELSE IF ~Has(p.annotations, TrafficKey(q.labels["app"])) THEN 0
    ELSE ParseFloat(p.annotations[TrafficKey(q.labels["app"])]).val

\* GetAppTraffic(pod, peerPod), the helper NetworkAware.Score calls: the
\* traffic.<peer app> annotation of the pod itself, 0.0 on every miss.
GetAppTraffic(p, q) ==
    IF ~Has(p.labels, "app-group") THEN 0
    ELSE IF ~Has(q.labels, "app-group") THEN 0
    ELSE IF p.labels["app-group"] # q.labels["app-group"] THEN 0
    ELSE IF ~Has(q.labels, "app") THEN 0
    ELSE IF ~Has(p.annotations, TrafficKey(q.labels["app"])) THEN 0
    ELSE ParseFloat(p.annotations[TrafficKey(q.labels["app"])]).val

\* GetNodeLatency(node, peerNode): 0.0 when the annotation is missing or does
\* not parse.
GetNodeLatency(node, peerNode) ==
    IF ~Has(node.annotations, LatencyKey(peerNode.name)) THEN 0
    ELSE ParseFloat(node.annotations[LatencyKey(peerNode.name)]).val

\* Pods(namespace).List with the field selector spec.nodeName=<name>.
ListPodsOnNode(pods, namespace, name) ==
    {n \in DOMAIN pods : pods[n].namespace = namespace /\ pods[n].nodeName = name}

\* The inner loop: int64(latency * traffic) taken off the score, pod by pod.
RECURSIVE ScorePeers(_, _, _, _, _, _)
ScorePeers(p, node, clusterNode, pods, items, score) ==
    IF items = {} THEN score
    ELSE LET n == CHOOSE x \in items : TRUE
             cost == TruncDiv(GetNodeLatency(node, clusterNode) * GetAppTraffic(p, pods[n]),
                              Scale * Scale)
         IN  ScorePeers(p, node, clusterNode, pods, items \ {n}, Wrap(score - cost))

\* The outer loop over the nodes of the snapshot.  `failing` holds the reads
\* that return an error.
RECURSIVE ScoreNodes(_, _, _, _, _, _, _)
ScoreNodes(p, node, clusterNodes, i, pods, failing, score) ==
    IF i > Len(clusterNodes) THEN [score |-> score, code |-> "Success"]
    ELSE IF <<"pods", clusterNodes[i].name>> \in failing
         THEN [score |-> 0, code |-> "Error"]
         ELSE ScoreNodes(p, node, clusterNodes, i + 1, pods, failing,
                         ScorePeers(p, node, clusterNodes[i], pods,
                                    ListPodsOnNode(pods, p.namespace, clusterNodes[i].name),
                                    score))

\* The nodes of the snapshot, in the order NodeInfos().List() returns them.
NodeList == <<"n1", "n2">>

\* NetworkAware.Score(pod, nodeName)
Score(p, nodeName, nodeInfos, pods, failing) ==
    IF <<"get", nodeName>> \in failing THEN [score |-> 0, code |-> "Error"]
    ELSE IF <<"list", "">> \in failing THEN [score |-> 0, code |-> "Error"]
    ELSE ScoreNodes(p, nodeInfos[nodeName], [i \in DOMAIN NodeList |-> nodeInfos[NodeList[i]]],
                    1, pods, failing, 0)

\* The reads of one Score call that can fail: the node lookup, the node
\* listing, and the pod listing of each node.
Reads == {<<"get", "n1">>, <<"get", "n2">>, <<"list", "">>, <<"pods", "n1">>, <<"pods", "n2">>}

ScoredPods ==
    { [namespace |-> "ns1",
       labels |-> MkMap("app-group" :> g),
       annotations |-> MkMap("traffic.a" :> ta @@ "traffic.b" :> tb)] :
        g \in {Absent, G1}, ta \in {<<"5">>, <<"0", ".", "5">>, <<"x">>},
        tb \in {Absent, <<"3">>} }

PeerShapes1 ==
    { [namespace |-> ns, labels |-> MkMap("app-group" :> g @@ "app" :> a), nodeName |-> n] :
        ns \in {"ns1", "ns2"}, g \in {G1, G2}, a \in {Absent, AppA},
        n \in {"", "n1", "n2"} }

PeerShapes2 ==
    { [namespace |-> "ns1", labels |-> MkMap("app-group" :> g @@ "app" :> a), nodeName |-> n] :
        g \in {Absent, G1}, a \in {AppA, AppB}, n \in {"n1", "n2"} }

LatencyMaps ==
    { MkMap("network-latency.n1" :> l1 @@ "network-latency.n2" :> l2) :
        l1 \in {Absent, <<"1", "0">>, <<"0", ".", "5">>}, l2 \in {<<"1", "0">>, <<"x">>} }

\* A pod to score, a candidate node with its latency annotations, and two
\* peers in the cluster.
InitScore ==
    /\ pod \in ScoredPods
    /\ candidate \in {"n1", "n2"}
    /\ \E m \in LatencyMaps :
         nodes = [n \in {"n1", "n2"} |->
                    [name |-> n,
                     annotations |-> IF n = candidate THEN m
                                     ELSE MkMap("network-latency.n1" :> Absent)]]
    /\ \E q1 \in PeerShapes1, q2 \in PeerShapes2 :
         cluster = [n \in {"q1", "q2"} |-> IF n = "q1" THEN q1 ELSE q2]
    /\ scoreCall = <<>>
    /\ replicaSets = <<>> /\ deployments = <<>>
    /\ peerPod = <<>> /\ neighbors = <<>> /\ chainsSlos = <<>>
    /\ phase = <<>> /\ queued = <<>> /\ gateCall = <<>> /\ gateRun = <<>>
    /\ IdleNormalize

\* The framework calls Score for the pod and the candidate node; at most one
\* of the reads fails.
CallScore(failing) ==
    /\ scoreCall = <<>>
    /\ scoreCall' = <<Score(pod, candidate, nodes, cluster, failing)>>
    /\ UNCHANGED <<nodes, candidate, replicaSets, deployments, topoVars, gateVars, normVars>>

NextScore == \E failing \in {{}} \cup {{r} : r \in Reads} : CallScore(failing)

SpecScore == InitScore /\ [][NextScore]_vars

(***************************************************************************)
(* GetOwnerDeployment and GetAppRequestsPerSecond                          *)
(***************************************************************************)

\* No object of a kind in the API server.
NoObjects == [d \in {} |-> <<>>]

\* ReplicaSets(namespace).Get(name) and Deployments(namespace).Get(name):
\* the object of that name in that namespace, or a not-found error.
GetObject(objects, namespace, name) ==
    IF name \in DOMAIN objects /\ objects[name].namespace = namespace
    THEN [err |-> FALSE, obj |-> objects[name]]
    ELSE [err |-> TRUE, obj |-> <<>>]

\* The reads of the owner chain that can fail (an API error, or the call's
\* context cancelled while the read is outstanding).
OwnerReads == {<<"replicaset", "">>, <<"deployment", "">>}

\* GetOwnerDeployment: pod -> ReplicaSet -> Deployment, each hop an error
\* when it cannot be made.
GetOwnerDeployment(p, rss, deps, failing) ==
    IF Len(p.ownerReferences) = 0 \/ p.ownerReferences[1].kind # "ReplicaSet"
    THEN [err |-> TRUE, msg |-> "no owner replicaSet for pod", deployment |-> <<>>]
    ELSE LET replicaSet == GetObject(rss, p.namespace, p.ownerReferences[1].name)
         IN  IF <<"replicaset", "">> \in failing \/ replicaSet.err
             THEN [err |-> TRUE, msg |-> "error in getting pod replicaSet", deployment |-> <<>>]
             ELSE IF Len(replicaSet.obj.ownerReferences) = 0
             THEN [err |-> TRUE, msg |-> "no owner deployment for replicaSet",
                   deployment |-> <<>>]
             ELSE LET deployment == GetObject(deps, replicaSet.obj.namespace,
                                              replicaSet.obj.ownerReferences[1].name)
                  IN  IF <<"deployment", "">> \in failing \/ deployment.err
                      THEN [err |-> TRUE, msg |-> "error in getting replicaSet deployment",
                            deployment |-> <<>>]
                      ELSE [err |-> FALSE, msg |-> "", deployment |-> deployment.obj]

\* "rps." + peerApp
RpsKey(app) == CASE app = AppA -> "rps.a" [] app = AppB -> "rps.b"

\* GetAppRequestsPerSecond(ctx, handle, pod, peerPod): the owner deployment
\* is looked up, and the rps.<peer app> annotation is read from the pod; 0.0
\* on every miss.
GetAppRequestsPerSecond(p, q, rss, deps, failing) ==
    IF ~Has(p.labels, "app-group") THEN 0
    ELSE IF ~Has(q.labels, "app-group") THEN 0
    ELSE IF p.labels["app-group"] # q.labels["app-group"] THEN 0
    ELSE IF ~Has(q.labels, "app") THEN 0
    ELSE IF GetOwnerDeployment(p, rss, deps, failing).err THEN 0
    ELSE IF ~Has(p.annotations, RpsKey(q.labels["app"])) THEN 0
    ELSE ParseFloat(p.annotations[RpsKey(q.labels["app"])]).val

(***************************************************************************)
(* NetworkSloAware.Score                                                   *)
(***************************************************************************)

\* The literal added to the request rate.
RpsOffset == 100

\* What the build makes of int64(f) when the float64 f is +Inf or NaN: the
\* conversion succeeds and its value depends on the implementation (the
\* least int64 on amd64; the greatest int64 for +Inf and 0 for NaN on arm64).
Conversions == {[inf |-> MinInt, nan |-> MinInt], [inf |-> MaxInt, nan |-> 0]}

\* int64(num / den) for the float64 quotient of two non-negative numbers.
ToInt64(num, den, conv) ==
    IF den # 0 THEN TruncDiv(num, den)
    ELSE IF num = 0 THEN conv.nan ELSE conv.inf

\* The mutant of SloScoreSlos: the literal 100 left out of the term.
RECURSIVE SloScoreSlosNoOffset(_, _, _, _, _, _)
SloScoreSlosNoOffset(nodeLatency, rps, slos, i, conv, score) ==
    IF i > Len(slos) THEN score
    ELSE SloScoreSlosNoOffset(nodeLatency, rps, slos, i + 1, conv,
             Wrap(score - ToInt64(nodeLatency * rps, Scale * slos[i], conv)))

\* The innermost loop: int64(nodeLatency * (rps + 100) / chainSlo) taken off
\* the score for every SLO of the pair.
RECURSIVE SloScoreSlos(_, _, _, _, _, _)
SloScoreSlos(nodeLatency, rps, slos, i, conv, score) ==
    IF i > Len(slos) THEN score
    ELSE SloScoreSlos(nodeLatency, rps, slos, i + 1, conv,
             Wrap(score - ToInt64(nodeLatency * (rps + RpsOffset * Scale),
                                  Scale * slos[i], conv)))

\* The loop over the pods of one node.  ords gives, for every peer, the
\* order in which the pod's labels are visited; ArePodsNeighbors answers the
\* same in every order, so one order per peer serves its loop and the loop
\* of GetSharedChainsSlos.
RECURSIVE SloScorePeers(_, _, _, _, _, _, _, _, _, _)
SloScorePeers(p, nodeLatency, pods, items, rss, deps, failing, ords, conv, score) ==
    IF items = {} THEN score
    ELSE LET n == CHOOSE x \in items : TRUE
             rest == items \ {n}
         IN  IF ArePodsNeighbors(p, pods[n], ords[n])
             THEN SloScorePeers(p, nodeLatency, pods, rest, rss, deps, failing, ords, conv,
                      SloScoreSlos(nodeLatency,
                                   GetAppRequestsPerSecond(p, pods[n], rss, deps, failing),
                                   GetSharedChainsSlos(p, pods[n], ords[n]),
                                   1, conv, score))
             ELSE SloScorePeers(p, nodeLatency, pods, rest, rss, deps, failing, ords, conv,
                                score)

\* The loop over the nodes of the snapshot.
RECURSIVE SloScoreNodes(_, _, _, _, _, _, _, _, _, _, _)
SloScoreNodes(p, node, clusterNodes, i, pods, rss, deps, failing, ords, conv, score) ==
    IF i > Len(clusterNodes) THEN [score |-> score, code |-> "Success"]
    ELSE IF <<"pods", clusterNodes[i].name>> \in failing
         THEN [score |-> 0, code |-> "Error"]
         ELSE SloScoreNodes(p, node, clusterNodes, i + 1, pods, rss, deps, failing, ords, conv,
                  SloScorePeers(p, GetNodeLatency(node, clusterNodes[i]), pods,
                                ListPodsOnNode(pods, p.namespace, clusterNodes[i].name),
                                rss, deps, failing, ords, conv, score))

\* NetworkSloAware.Score(pod, nodeName)
NetworkSloAwareScore(p, nodeName, nodeInfos, pods, rss, deps, failing, ords, conv) ==
    IF <<"get", nodeName>> \in failing THEN [score |-> 0, code |-> "Error"]
    ELSE IF <<"list", "">> \in failing THEN [score |-> 0, code |-> "Error"]
    ELSE SloScoreNodes(p, nodeInfos[nodeName],
                       [i \in DOMAIN NodeList |-> nodeInfos[NodeList[i]]],
                       1, pods, rss, deps, failing, ords, conv, 0)

\* The owner references a pod or a ReplicaSet is drawn with.
RsRef == <<[kind |-> "ReplicaSet", name |-> "rs1"]>>
DepRef == <<[kind |-> "Deployment", name |-> "d1"]>>

\* The owner chains drawn: the owner references of the pod, with the
\* ReplicaSets and Deployments of the API server.  A pod without owner, a pod
\* owned by a Job, a pod whose ReplicaSet is gone, a ReplicaSet without owner,
\* a ReplicaSet whose Deployment is gone, and the whole chain.
OwnerChains(annotations) ==
    LET rsOwned == "rs1" :> [namespace |-> "ns1", ownerReferences |-> DepRef]
        rsAlone == "rs1" :> [namespace |-> "ns1", ownerReferences |-> <<>>]
        deps(a) == "d1" :> [namespace |-> "ns1", annotations |-> a]
    IN  UNION { { [refs |-> <<>>, rss |-> rsOwned, deps |-> deps(a)],
                  [refs |-> <<[kind |-> "Job", name |-> "rs1"]>>,
                   rss |-> rsOwned, deps |-> deps(a)],
                  [refs |-> RsRef, rss |-> NoObjects, deps |-> deps(a)],
                  [refs |-> RsRef, rss |-> rsAlone, deps |-> deps(a)],
                  [refs |-> RsRef, rss |-> rsOwned, deps |-> NoObjects],
                  [refs |-> RsRef, rss |-> rsOwned, deps |-> deps(a)] } :
                a \in annotations }

SloPods ==
    { [namespace |-> "ns1",
       labels |-> MkMap("app-group" :> G1 @@ "chain-a" :> <<"1">> @@ "chain-b" :> b),
       annotations |-> MkMap("chain-a-slo" :> sa @@ "chain-b-slo" :> <<"4", "0">>
                             @@ "rps.a" :> r),
       ownerReferences |-> RsRef] :
        b \in {Absent, <<"1">>}, sa \in {Absent, <<"2", "0">>, <<"0">>},
        r \in {Absent, <<"5", "0">>} }

SloPeers1 ==
    { [namespace |-> nsg[1],
       labels |-> MkMap("app-group" :> nsg[2] @@ "app" :> AppA @@ "chain-a" :> a),
       nodeName |-> n] :
        nsg \in {<<"ns1", G1>>, <<"ns2", G1>>, <<"ns1", G2>>},
        a \in {<<"0">>, <<"1">>}, n \in {"", "n2"} }

SloPeers2 ==
    { [namespace |-> "ns1",
       labels |-> MkMap("app-group" :> G1 @@ "app" :> a @@ "chain-a" :> <<"0">>
                        @@ "chain-b" :> b),
       nodeName |-> n] :
        a \in {Absent, AppA}, b \in {Absent, <<"0">>}, n \in {"n1"} }

SloLatencyMaps ==
    { MkMap("network-latency.n1" :> <<"1", "0">> @@ "network-latency.n2" :> l2) :
        l2 \in {Absent, <<"1", "0">>, <<"0", ".", "5">>} }

\* A pod to score with its owner chain, a candidate node with its latency
\* annotations, and two peers in the cluster.
InitSlo ==
    /\ \E shape \in SloPods, chain \in OwnerChains({MkMap("rps.a" :> Absent)}) :
         /\ pod = [shape EXCEPT !.ownerReferences = chain.refs]
         /\ replicaSets = chain.rss
         /\ deployments = chain.deps
    /\ candidate = "n1"
    /\ \E m \in SloLatencyMaps :
         nodes = [n \in {"n1", "n2"} |->
                    [name |-> n,
                     annotations |-> IF n = candidate THEN m
                                     ELSE MkMap("network-latency.n1" :> Absent)]]
    /\ \E q1 \in SloPeers1, q2 \in SloPeers2 :
         cluster = [n \in {"q1", "q2"} |-> IF n = "q1" THEN q1 ELSE q2]
    /\ scoreCall = <<>>
    /\ peerPod = <<>> /\ neighbors = <<>> /\ chainsSlos = <<>>
    /\ phase = <<>> /\ queued = <<>> /\ gateCall = <<>> /\ gateRun = <<>>
    /\ IdleNormalize

\* The framework calls NetworkSloAware.Score for the pod and the candidate
\* node; at most one of the reads fails.  The call is recorded with the
\* orders in which the labels were visited for each peer.
CallNetworkSloAwareScore(failing, ords, conv) ==
    /\ scoreCall = <<>>
    /\ LET r == NetworkSloAwareScore(pod, candidate, nodes, cluster, replicaSets,
                                     deployments, failing, ords, conv)
       IN  scoreCall' = <<[score |-> r.score, code |-> r.code, failing |-> failing,
                           orders |-> ords]>>
    /\ UNCHANGED <<nodes, candidate, replicaSets, deployments, topoVars, gateVars, normVars>>

NextSlo ==
    \E failing \in {{}} \cup {{r} : r \in (Reads \cup OwnerReads) \ {<<"get", "n2">>}},
       ords \in [DOMAIN cluster -> RangeOrders(pod)],
       conv \in Conversions :
        CallNetworkSloAwareScore(failing, ords, conv)

SpecSlo == InitSlo /\ [][NextSlo]_vars

(***************************************************************************)
(* GetAppCpuUsage, GetAppMemoryUsage and                                   *)
(* LoadAwareResourcesBalancedAllocation.Score                              *)
(***************************************************************************)

\* The mutant of GetAppCpuUsage: the annotation read from the pod itself.
GetAppCpuUsageFromPod(p, rss, deps, failing) ==
    IF ~Has(p.annotations, "cpu-usage") THEN 0
    ELSE ParseFloat(p.annotations["cpu-usage"]).val

\* GetAppCpuUsage(ctx, handle, pod): the cpu-usage annotation of the owner
\* deployment; 0.0 when the deployment cannot be had, or has no annotation
\* that parses.
GetAppCpuUsage(p, rss, deps, failing) ==
    LET owner == GetOwnerDeployment(p, rss, deps, failing)
    IN  IF owner.err THEN 0
        ELSE IF ~Has(owner.deployment.annotations, "cpu-usage") THEN 0
        ELSE ParseFloat(owner.deployment.annotations["cpu-usage"]).val

\* GetAppMemoryUsage(ctx, handle, pod)
GetAppMemoryUsage(p, rss, deps, failing) ==
    LET owner == GetOwnerDeployment(p, rss, deps, failing)
    IN  IF owner.err THEN 0
        ELSE IF ~Has(owner.deployment.annotations, "memory-usage") THEN 0
        ELSE ParseFloat(owner.deployment.annotations["memory-usage"]).val

\* GetNodeCpuUsage(node) and GetNodeMemoryUsage(node)
GetNodeCpuUsage(node) ==
    IF ~Has(node.annotations, "cpu-usage") THEN 0
    ELSE ParseFloat(node.annotations["cpu-usage"]).val

GetNodeMemoryUsage(node) ==
    IF ~Has(node.annotations, "memory-usage") THEN 0
    ELSE ParseFloat(node.annotations["memory-usage"]).val

\* The score of the balance formula, for usages in tenths and allocatable
\* amounts in units:
\*   cpuUsageRatio    = -cpu * 100 / MilliCPU
\*   memoryUsageRatio = -memory * 100 / Memory
\*   int64((1 - |cpuUsageRatio - memoryUsageRatio| / 2) * MaxNodeScore)
\* computed on the exact quotient
\*   (Scale * MilliCPU * Memory * MaxNodeScore
\*      - 50 * MaxNodeScore * |memory * MilliCPU - cpu * Memory|)
\*   / (Scale * MilliCPU * Memory).
BalanceScore(cpu, memory, allocatable) ==
    TruncDiv(Scale * allocatable.MilliCPU * allocatable.Memory * MaxNodeScore
               - 50 * MaxNodeScore
                    * Abs(memory * allocatable.MilliCPU - cpu * allocatable.Memory),
             Scale * allocatable.MilliCPU * allocatable.Memory)

\* LoadAwareResourcesBalancedAllocation.Score(pod, nodeName): the record
\* holds, with the score and the status, the two usages the call obtained for
\* the pod.
LoadAwareScore(p, nodeName, nodeInfos, rss, deps, failing) ==
    IF <<"get", nodeName>> \in failing
    THEN [score |-> 0, code |-> "Error", cpuUsage |-> 0, memoryUsage |-> 0]
    ELSE LET node == nodeInfos[nodeName]
             appCpu == GetAppCpuUsage(p, rss, deps, failing)
             appMemory == GetAppMemoryUsage(p, rss, deps, failing)
         IN  [score |-> Wrap(BalanceScore(appCpu + GetNodeCpuUsage(node),
                                          appMemory + GetNodeMemoryUsage(node),
                                          node.allocatable)),
              code |-> "Success", cpuUsage |-> appCpu, memoryUsage |-> appMemory]

BalancePods ==
    { [namespace |-> "ns1",
       labels |-> MkMap("app-group" :> G1),
       annotations |-> MkMap("cpu-usage" :> c @@ "memory-usage" :> m),
       ownerReferences |-> <<>>] :
        c \in {Absent, <<"3", "0">>}, m \in {Absent, <<"3", "0">>} }

DeploymentUsages ==
    { MkMap("cpu-usage" :> c @@ "memory-usage" :> m) :
        c \in {Absent, <<"2", "0">>, <<"x">>}, m \in {Absent, <<"1", "0">>} }

BalanceNodes ==
    { [name |-> "n1",
       annotations |-> MkMap("cpu-usage" :> c @@ "memory-usage" :> m),
       allocatable |-> [MilliCPU |-> ac, Memory |-> am]] :
        c \in {Absent, <<"1", "0">>}, m \in {Absent, <<"1", "0">>, <<"x">>},
        ac \in {100, 200}, am \in {100, 200} }

\* A pod to score with its owner chain, and the candidate node with its
\* usage annotations and allocatable resources.
InitBalance ==
    /\ \E shape \in BalancePods, chain \in OwnerChains(DeploymentUsages) :
         /\ pod = [shape EXCEPT !.ownerReferences = chain.refs]
         /\ replicaSets = chain.rss
         /\ deployments = chain.deps
    /\ candidate = "n1"
    /\ \E node \in BalanceNodes : nodes = [n \in {"n1"} |-> node]
    /\ cluster = <<>>
    /\ scoreCall = <<>>
    /\ peerPod = <<>> /\ neighbors = <<>> /\ chainsSlos = <<>>
    /\ phase = <<>> /\ queued = <<>> /\ gateCall = <<>> /\ gateRun = <<>>
    /\ IdleNormalize

\* The framework calls LoadAwareResourcesBalancedAllocation.Score for the
\* pod and the candidate node; at most one of the reads fails.
CallLoadAwareScore(failing) ==
    /\ scoreCall = <<>>
    /\ LET r == LoadAwareScore(pod, candidate, nodes, replicaSets, deployments, failing)
       IN  scoreCall' = <<[score |-> r.score, code |-> r.code, failing |-> failing,
                           cpuUsage |-> r.cpuUsage, memoryUsage |-> r.memoryUsage]>>
    /\ UNCHANGED <<nodes, candidate, replicaSets, deployments, topoVars, gateVars, normVars>>

NextBalance ==
    \E failing \in {{}} \cup {{r} : r \in {<<"get", "n1">>} \cup OwnerReads} :
        CallLoadAwareScore(failing)

SpecBalance == InitBalance /\ [][NextBalance]_vars

(***************************************************************************)
(* The pipeline data model of the specification, used to state the claims. *)
(***************************************************************************)

\* A pod has a stage index on a key when the label is there and its value
\* parses to a non-negative integer.
HasStageIndex(p, key) ==
    /\ HasChainPrefix(key)
    /\ Has(p.labels, key)
    /\ ~Atoi(p.labels[key]).err
    /\ Atoi(p.labels[key]).val >= 0

StageIndex(p, key) == Atoi(p.labels[key]).val

SameGroup(p, q) ==
    /\ Has(p.labels, "app-group")
    /\ Has(q.labels, "app-group")
    /\ p.labels["app-group"] = q.labels["app-group"]

\* The pod without the chain- labels that hold no stage index.
DropUnparsable(p) ==
    [p EXCEPT !.labels =
        [k \in {x \in DOMAIN p.labels : HasChainPrefix(x) => HasStageIndex(p, x)}
            |-> p.labels[k]]]

(***************************************************************************)
(* Claims on the topology helpers (SpecTopology)                           *)
(***************************************************************************)

\* C5: ArePodsNeighbors(a, b) is true if and only if both pods carry an
\* app-group label, the two labels are equal, and some stage key is on both
\* pods with stage indices that differ by exactly 1.
C5_NeighborsIffAdjacentStage ==
    Has(neighbors, "ab") =>
        (neighbors["ab"] <=>
            /\ SameGroup(pod, peerPod)
            /\ \E key \in ChainKeys :
                 /\ HasStageIndex(pod, key)
                 /\ HasStageIndex(peerPod, key)
                 /\ Abs(StageIndex(pod, key) - StageIndex(peerPod, key)) = 1)

\* C6: ArePodsNeighbors is symmetric: called on (pod, peerPod) and on
\* (peerPod, pod), whatever the labels of the two pods and whatever the order
\* in which each call visits the labels, it returns the same answer.
C6_NeighborsSymmetric ==
    (Has(neighbors, "ab") /\ Has(neighbors, "ba")) => neighbors["ab"] = neighbors["ba"]

\* C6 witness: both calls returned true on two pods with different label
\* sets, one of them holding a stage value that does not parse.
C6_Witness ==
    /\ Has(neighbors, "ab") /\ Has(neighbors, "ba")
    /\ neighbors["ab"]
    /\ DOMAIN pod.labels # DOMAIN peerPod.labels
    /\ \E key \in DOMAIN peerPod.labels :
         HasChainPrefix(key) /\ ParseFloat(peerPod.labels[key]).err

\* C7: a stage value that does not parse counts as the key being absent,
\* never as index 0: ArePodsNeighbors and GetSharedChainsSlos return on the
\* pods as labelled what they return on the pods with those labels removed.
C7_UnparsableStageIsAbsent ==
    /\ Has(neighbors, "ab") =>
         \A o \in RangeOrders(DropUnparsable(pod)) :
            neighbors["ab"] = ArePodsNeighbors(DropUnparsable(pod), DropUnparsable(peerPod), o)
    /\ chainsSlos # <<>> =>
         \E o \in RangeOrders(DropUnparsable(pod)) :
            chainsSlos[1].slos =
                GetSharedChainsSlos(DropUnparsable(pod), DropUnparsable(peerPod), o)

\* The per-key neighbor test of the helpers.
NeighborsOnKey(p, q, key) ==
    /\ Has(p.labels, key)
    /\ Has(q.labels, key)
    /\ ~ParseFloat(p.labels[key]).err
    /\ TruncDiv(Abs(ParseFloat(p.labels[key]).val - ParseFloat(q.labels[key]).val), Scale) = 1

\* The keys of an order that contribute an SLO budget, when a missing or
\* unparsable entry drops its own key only.
RECURSIVE SlosPerKey(_, _, _, _)
SlosPerKey(p, q, order, i) ==
    IF i > Len(order) THEN <<>>
    ELSE LET key == order[i]
             rest == SlosPerKey(p, q, order, i + 1)
         IN  IF /\ NeighborsOnKey(p, q, key)
                /\ Has(p.annotations, SloKey(key))
                /\ ~ParseFloat(p.annotations[SloKey(key)]).err
             THEN <<ParseFloat(p.annotations[SloKey(key)]).val>> \o rest
             ELSE rest

\* C8: GetSharedChainsSlos returns nothing when a pod has no app-group or the
\* groups differ; otherwise it returns the first pod's SLO budget of every
\* stage key on which the pods are neighbors and whose <key>-slo annotation
\* parses, a key with a missing or unparsable annotation dropping only its
\* own budget, in whatever order the keys are visited.
C8_SlosFailSoftPerKey ==
    chainsSlos # <<>> =>
        chainsSlos[1].slos =
            IF SameGroup(pod, peerPod)
            THEN SlosPerKey(pod, peerPod, chainsSlos[1].order, 1)
            ELSE <<>>


(***************************************************************************)
(* Claims on the admission gate (SpecGate, FairSpecGate)                   *)
(***************************************************************************)

\* Every chain- label of the pod holds an integer.
IntegerStages(w) ==
    \A key \in DOMAIN w.labels : HasChainPrefix(key) => ~Atoi(w.labels[key]).err

\* The predecessors of w on a key: the pods of w's namespace and pipeline
\* group whose stage index on the key is w's index minus one.
PredecessorsByIndex(w, key) ==
    {n \in PodNames :
        /\ cluster[n].namespace = w.namespace
        /\ SameGroup(w, cluster[n])
        /\ HasStageIndex(cluster[n], key)
        /\ StageIndex(cluster[n], key) = StageIndex(w, key) - 1}

\* The same, with the predecessor's label compared as text: the label is the
\* decimal numeral of w's index minus one.
PredecessorsByText(w, key) ==
    {n \in PodNames :
        /\ cluster[n].namespace = w.namespace
        /\ SameGroup(w, cluster[n])
        /\ Has(cluster[n].labels, key)
        /\ cluster[n].labels[key] = Itoa(StageIndex(w, key) - 1)}

Bound(n) == cluster[n].nodeName # ""

PredecessorsPlaced(w) ==
    \A key \in ChainKeys :
        (HasStageIndex(w, key) /\ StageIndex(w, key) > 0) =>
            /\ PredecessorsByIndex(w, key) # {}
            /\ \A n \in PredecessorsByIndex(w, key) : Bound(n)

ListedPredecessorsPlaced(w) ==
    \A key \in ChainKeys :
        (HasStageIndex(w, key) /\ StageIndex(w, key) > 0) =>
            /\ PredecessorsByText(w, key) # {}
            /\ \A n \in PredecessorsByText(w, key) : Bound(n)

\* C1 as claimed: for a pod with an app-group label and integer stage labels,
\* the gate answers true exactly when every stage key with index > 0 has a
\* non-empty set of predecessors (same namespace, same group, index one less)
\* and all of them are bound.  It is stated of the calls whose List calls
\* all succeed, the cluster state being what the claim speaks of.
C1_ReadyIffPredecessorsPlaced ==
    (gateCall # <<>> /\ gateCall[1].log # "error getting lesser order pods") =>
        LET w == cluster[gateCall[1].pod]
        IN  (Has(w.labels, "app-group") /\ IntegerStages(w)) =>
                (gateCall[1].ready <=> PredecessorsPlaced(w))

\* C1 as amended: a gate call whose List calls all succeed answers true
\* exactly when every stage key with index > 0 has a non-empty set of pods,
\* in the namespace and group, labelled on that key with the decimal numeral
\* of index - 1, all of them bound; a call in which a List call fails answers
\* false.
C1_ReadyIffListedPredecessorsPlaced ==
    gateCall # <<>> =>
        LET w == cluster[gateCall[1].pod]
        IN  (Has(w.labels, "app-group") /\ IntegerStages(w)) =>
                IF gateCall[1].log = "error getting lesser order pods"
                THEN ~gateCall[1].ready
                ELSE gateCall[1].ready <=> ListedPredecessorsPlaced(w)

\* C1 witness: the gate has opened for a pod with a stage index > 0 while a
\* pod of its namespace and group whose label parses to the index before it,
\* but is not its decimal numeral, is not bound.
C1_Witness ==
    /\ gateCall # <<>>
    /\ gateCall[1].ready
    /\ LET w == cluster[gateCall[1].pod]
       IN  \E key \in ChainKeys :
             /\ HasStageIndex(w, key)
             /\ StageIndex(w, key) > 0
             /\ \E n \in PredecessorsByIndex(w, key) : ~Bound(n)

\* C2: a pod with no stage keys, or with index 0 on all its stage keys, is
\* ready whatever its other labels (its app-group label included) and
\* whatever the cluster holds.
C2_NoStageOrIndexZeroIsReady ==
    gateCall # <<>> =>
        LET w == cluster[gateCall[1].pod]
        IN  (\A key \in DOMAIN w.labels :
                HasChainPrefix(key) => (HasStageIndex(w, key) /\ StageIndex(w, key) = 0))
            => gateCall[1].ready

\* C3: when the gate finds a pod not ready the status handed to the scheduler
\* is a re-queue signal, never an error or a permanent failure; the pod stays
\* PENDING and no pod is ever in a state other than PENDING, READY and PLACED.
C3_NotReadyIsRequeueNeverError ==
    /\ \A p \in PodNames : phase[p] \in {"PENDING", "READY", "PLACED"}
    /\ (gateCall # <<>> /\ ~gateCall[1].ready) =>
          /\ phase[gateCall[1].pod] = "PENDING"
          /\ gateCall[1].code \notin {"Error", "UnschedulableAndUnresolvable"}

\* C4: every Pod/Update event puts the waiting PENDING pods back in the
\* queue, and a pod whose stage keys with index > 0 have, from some point on,
\* at least one predecessor each and only bound predecessors eventually
\* passes the gate.
C4_EventuallyPassesGate ==
    /\ [][PodUpdateEvent => \A p \in PodNames : phase[p] = "PENDING" => queued'[p]]_vars
    /\ \A p \in PodNames :
         <>[]PredecessorsPlaced(cluster[p]) => <>(phase[p] # "PENDING")


(***************************************************************************)
(* Claims on NormalizeScore (SpecNormalize)                                *)
(***************************************************************************)

ScoresOf(list) == {list[i].Score : i \in 1..Len(list)}

Lowest(list) == CHOOSE x \in ScoresOf(list) : \A y \in ScoresOf(list) : x <= y

Highest(list) == CHOOSE x \in ScoresOf(list) : \A y \in ScoresOf(list) : x >= y

\* The reference: all scores equal gives the range minimum; otherwise the
\* affine map, in whole numbers with the quotient truncated.
Reference(list, i) ==
    IF Highest(list) = Lowest(list) THEN MinNodeScore
    ELSE ((list[i].Score - Lowest(list)) * (MaxNodeScore - MinNodeScore))
            \div (Highest(list) - Lowest(list)) + MinNodeScore

MatchesReference ==
    /\ Len(scores) = Len(scoresIn)
    /\ \A i \in 1..Len(scores) :
         /\ scores[i].Name = scoresIn[i].Name
         /\ scores[i].Score = Reference(scoresIn, i)
         /\ scores[i].Score >= MinNodeScore
         /\ scores[i].Score <= MaxNodeScore
         /\ scoresIn[i].Score = Lowest(scoresIn) => scores[i].Score = MinNodeScore
         /\ (scoresIn[i].Score = Highest(scoresIn) /\ Highest(scoresIn) # Lowest(scoresIn))
                => scores[i].Score = MaxNodeScore

NoOverflow(list) ==
    (Highest(list) - Lowest(list)) * (MaxNodeScore - MinNodeScore) <= MaxInt

Latency(n, p) ==
    IF Has(nodes[n].annotations, LatencyKey(p))
    THEN ParseFloat(nodes[n].annotations[LatencyKey(p)]).val ELSE 0

Traffic(w, peer) ==
    IF /\ SameGroup(w, peer)
       /\ Has(peer.labels, "app")
       /\ Has(w.annotations, TrafficKey(peer.labels["app"]))
    THEN ParseFloat(w.annotations[TrafficKey(peer.labels["app"])]).val
    ELSE 0

RECURSIVE SumOver(_, _)
SumOver(S, f) ==
    IF S = {} THEN 0
    ELSE LET x == CHOOSE y \in S : TRUE IN f[x] + SumOver(S \ {x}, f)

\* The (node, peer) pairs of the sum: every peer bound to a node of the
\* cluster.
BoundPairs == {<<p, q>> \in (DOMAIN nodes) \X (DOMAIN cluster) : cluster[q].nodeName = p}

\* The same, with the peers of the scored pod's namespace only.
BoundPairsInNamespace == {pq \in BoundPairs : cluster[pq[2]].namespace = pod.namespace}

\* latency * traffic of a pair, in hundredths.
PairCost == [pq \in BoundPairs |-> Latency(candidate, pq[1]) * Traffic(pod, cluster[pq[2]])]

\* int64(latency * traffic) of a pair.
PairCostTruncated == [pq \in BoundPairs |-> PairCost[pq] \div (Scale * Scale)]

\* C10 as claimed: when all reads succeed the raw score is minus the sum,
\* over every node and every peer bound to it, of latency * traffic, and it
\* is never positive.
C10_ScoreIsMinusLatencyTimesTraffic ==
    (scoreCall # <<>> /\ scoreCall[1].code = "Success") =>
        /\ scoreCall[1].score * (Scale * Scale) = -SumOver(BoundPairs, PairCost)
        /\ scoreCall[1].score <= 0

\* C10 as amended: when all reads succeed the raw score is minus the sum,
\* over every node and every peer of the pod's namespace bound to it, of
\* latency * traffic truncated to a whole number pair by pair, and it is
\* never positive.
C10_ScoreIsMinusTruncatedCostInNamespace ==
    (scoreCall # <<>> /\ scoreCall[1].code = "Success") =>
        /\ scoreCall[1].score = -SumOver(BoundPairsInNamespace, PairCostTruncated)
        /\ scoreCall[1].score <= 0

\* C10 witness: a score of -50 from one pair with latency 10 and traffic 5,
\* the other peer bound too and contributing nothing.
C10_Witness ==
    /\ scoreCall # <<>>
    /\ scoreCall[1].code = "Success"
    /\ scoreCall[1].score = -50
    /\ \E pq \in BoundPairsInNamespace :
         /\ Latency(candidate, pq[1]) = 10 * Scale
         /\ Traffic(pod, cluster[pq[2]]) = 5 * Scale
    /\ Cardinality(BoundPairs) = 2

(***************************************************************************)
(* Claims on the SLO Cost Scorer (SpecSlo)                                 *)
(***************************************************************************)

\* The owner chain of w (pod -> ReplicaSet -> Deployment) resolves in a call
\* whose failing reads are `failing`.
OwnerResolves(w, failing) ==
    /\ Len(w.ownerReferences) > 0
    /\ w.ownerReferences[1].kind = "ReplicaSet"
    /\ failing \cap OwnerReads = {}
    /\ w.ownerReferences[1].name \in DOMAIN replicaSets
    /\ LET rs == replicaSets[w.ownerReferences[1].name]
       IN  /\ rs.namespace = w.namespace
           /\ Len(rs.ownerReferences) > 0
           /\ rs.ownerReferences[1].name \in DOMAIN deployments
           /\ deployments[rs.ownerReferences[1].name].namespace = rs.namespace

\* requestsPerSecond(w, peer), in tenths: w's rps.<peer app> entry for a peer
\* of w's pipeline group, when w's owner chain resolves; 0 otherwise.
RequestsPerSecond(w, peer, failing) ==
    IF /\ SameGroup(w, peer)
       /\ Has(peer.labels, "app")
       /\ OwnerResolves(w, failing)
       /\ Has(w.annotations, RpsKey(peer.labels["app"]))
    THEN ParseFloat(w.annotations[RpsKey(peer.labels["app"])]).val
    ELSE 0

\* sharedSlos(pod, peer) as the recorded call obtained it.
SharedSlos(q) == GetSharedChainsSlos(pod, cluster[q], scoreCall[1].orders[q])

\* The contributions the claim counts: a node, a peer bound to it that is a
\* neighbor of the pod, and the position of one SLO budget of the pair.
SloTerms(pairs) ==
    {<<pq[1], pq[2], i>> : pq \in pairs, i \in 1..Cardinality(ChainKeys)} \cap
    {t \in (DOMAIN nodes) \X (DOMAIN cluster) \X (1..Cardinality(ChainKeys)) :
        /\ cluster[t[2]].nodeName = t[1]
        /\ ArePodsNeighbors(pod, cluster[t[2]], scoreCall[1].orders[t[2]])
        /\ t[3] <= Len(SharedSlos(t[2]))}

\* The numerator and the denominator of latency * (rps + 100) / slo.
SloTermNum(t) ==
    Latency(candidate, t[1])
        * (RequestsPerSecond(pod, cluster[t[2]], scoreCall[1].failing) + RpsOffset * Scale)

SloTermDen(t) == Scale * SharedSlos(t[2])[t[3]]

\* Every SLO budget a counted pair shares is other than zero.
SlosNonZero == \A t \in SloTerms(BoundPairs) : SharedSlos(t[2])[t[3]] # 0

\* A common denominator of the terms: the product of the denominators.
RECURSIVE ProductOver(_, _)
ProductOver(S, f) ==
    IF S = {} THEN 1
    ELSE LET x == CHOOSE y \in S : TRUE IN f[x] * ProductOver(S \ {x}, f)

SloCommonDen(terms) == ProductOver(terms, [t \in terms |-> SloTermDen(t)])

\* C11 as claimed: the raw score of NetworkSloAware.Score is minus the sum,
\* over every bound peer that is a neighbor of the pod and every SLO budget
\* sharedSlos returns for the pair, of latency * (rps + 100) / slo; a pair
\* with no SLO budget contributes nothing.
C11_SloScoreIsMinusLatencyRateOverSlo ==
    (scoreCall # <<>> /\ scoreCall[1].code = "Success" /\ SlosNonZero) =>
        LET terms == SloTerms(BoundPairs)
            den == SloCommonDen(terms)
        IN  scoreCall[1].score * den =
                -SumOver(terms, [t \in terms |-> SloTermNum(t) * (den \div SloTermDen(t))])

\* C11 as amended: the raw score is minus the sum, over every bound peer of
\* the pod's namespace that is a neighbor of the pod and every non-zero SLO
\* budget sharedSlos returns for the pair, of latency * (rps + 100) / slo
\* truncated to a whole number term by term; a pair with no SLO budget
\* contributes nothing.
C11_SloScoreIsMinusTruncatedTermsInNamespace ==
    (scoreCall # <<>> /\ scoreCall[1].code = "Success" /\ SlosNonZero) =>
        LET terms == SloTerms(BoundPairsInNamespace)
        IN  scoreCall[1].score =
                -SumOver(terms, [t \in terms |-> SloTermNum(t) \div SloTermDen(t)])

\* C11 witness: a score of -75 from one pair with SLO 20, rate 50 and latency
\* 10, the other peer bound too and sharing no SLO budget with the pod.
C11_Witness ==
    /\ scoreCall # <<>>
    /\ scoreCall[1].code = "Success"
    /\ scoreCall[1].score = -75
    /\ Cardinality(BoundPairs) = 2
    /\ Cardinality(SloTerms(BoundPairs)) = 1
    /\ \E t \in SloTerms(BoundPairsInNamespace) :
         /\ Latency(candidate, t[1]) = 10 * Scale
         /\ RequestsPerSecond(pod, cluster[t[2]], scoreCall[1].failing) = 50 * Scale
         /\ SharedSlos(t[2])[t[3]] = 20 * Scale

(***************************************************************************)
(* Claims on the predicted usage lookup (SpecBalance)                      *)
(***************************************************************************)

\* The deployment the owner chain of w leads to.
OwnerOf(w) == deployments[replicaSets[w.ownerReferences[1].name].ownerReferences[1].name]

\* A usage entry of a metadata map, in tenths; 0 when there is none that
\* parses.
UsageEntry(annotations, key) ==
    IF Has(annotations, key) THEN ParseFloat(annotations[key]).val ELSE 0

\* C12 as claimed: the predicted CPU and memory usage of the pod are the
\* owner deployment's entries when the owner chain resolves and the pod's own
\* cpu-usage / memory-usage entries when it does not, and no failure of the
\* lookup makes Score return an error.
C12_UsageFromOwnerElseFromPod ==
    scoreCall # <<>> =>
        LET call == scoreCall[1]
        IN  /\ <<"get", candidate>> \notin call.failing => call.code = "Success"
            /\ call.code = "Success" =>
                 IF OwnerResolves(pod, call.failing)
                 THEN /\ call.cpuUsage = UsageEntry(OwnerOf(pod).annotations, "cpu-usage")
                      /\ call.memoryUsage =
                            UsageEntry(OwnerOf(pod).annotations, "memory-usage")
                 ELSE /\ call.cpuUsage = UsageEntry(pod.annotations, "cpu-usage")
                      /\ call.memoryUsage = UsageEntry(pod.annotations, "memory-usage")

\* C12 as amended: the predicted CPU and memory usage of the pod are the
\* owner deployment's entries when the owner chain resolves and 0.0 when it
\* does not, whatever the pod's own entries, and no failure of the lookup
\* makes Score return an error.
C12_UsageFromOwnerElseZero ==
    scoreCall # <<>> =>
        LET call == scoreCall[1]
        IN  /\ <<"get", candidate>> \notin call.failing => call.code = "Success"
            /\ call.code = "Success" =>
                 IF OwnerResolves(pod, call.failing)
                 THEN /\ call.cpuUsage = UsageEntry(OwnerOf(pod).annotations, "cpu-usage")
                      /\ call.memoryUsage =
                            UsageEntry(OwnerOf(pod).annotations, "memory-usage")
                 ELSE /\ call.cpuUsage = 0
                      /\ call.memoryUsage = 0

\* C12 witness: Score has returned without error for a pod that carries its
\* own cpu-usage entry and whose deployment could not be read, with a
\* predicted CPU usage of 0.
C12_Witness ==
    /\ scoreCall # <<>>
    /\ scoreCall[1].code = "Success"
    /\ scoreCall[1].failing = {<<"deployment", "">>}
    /\ OwnerResolves(pod, {})
    /\ UsageEntry(OwnerOf(pod).annotations, "cpu-usage") = 20 * Scale
    /\ UsageEntry(pod.annotations, "cpu-usage") = 30 * Scale
    /\ scoreCall[1].cpuUsage = 0

(***************************************************************************)
(* Claims on failed reads (SpecSlo)                                        *)
(***************************************************************************)

\* The recorded NetworkSloAware.Score call asked for the request rate of some
\* peer, and so read the pod's ReplicaSet: the pod has a neighbor with an app
\* label among the listed pods, and a ReplicaSet owner reference.
ReplicaSetReadMade ==
    /\ \E pq \in BoundPairsInNamespace :
         /\ ArePodsNeighbors(pod, cluster[pq[2]], scoreCall[1].orders[pq[2]])
         /\ Has(cluster[pq[2]].labels, "app")
    /\ Len(pod.ownerReferences) > 0
    /\ pod.ownerReferences[1].kind = "ReplicaSet"

\* The call went on to read the Deployment: the ReplicaSet was had and names
\* an owner.
DeploymentReadMade ==
    /\ ReplicaSetReadMade
    /\ ~GetObject(replicaSets, pod.namespace, pod.ownerReferences[1].name).err
    /\ Len(replicaSets[pod.ownerReferences[1].name].ownerReferences) > 0

\* The reads of the recorded call that were made and failed (an API error, or
\* the context cancelled while the read was outstanding).
FailedReadsMade ==
    {r \in scoreCall[1].failing :
        \/ r \in Reads
        \/ r = <<"replicaset", "">> /\ ReplicaSetReadMade
        \/ r = <<"deployment", "">> /\ DeploymentReadMade}

\* C13: when a read of a Score call fails or is cancelled (the node lookup,
\* the node listing, a pod listing, or a read of the owner chain), Score
\* returns an error status, and never a score without error.
C13_FailedReadsAreSurfaced ==
    (scoreCall # <<>> /\ FailedReadsMade # {}) => scoreCall[1].code = "Error"

(***************************************************************************)
(* Claims on pipeline ordering (SpecGateSteps)                             *)
(***************************************************************************)

\* Pod p passes the gate or is bound in this step.
PassesOrPlaced(p) ==
    \/ phase[p] = "PENDING" /\ phase'[p] = "READY"
    \/ phase[p] # "PLACED" /\ phase'[p] = "PLACED"

\* No pod one stage before w, on a key where w has an index > 0, is unbound.
NoPredecessorUnbound(w) ==
    \A key \in ChainKeys :
        (HasStageIndex(w, key) /\ StageIndex(w, key) > 0) =>
            \A n \in PredecessorsByIndex(w, key) : Bound(n)

\* The same, the pods one stage before being those labelled with the decimal
\* numeral of the index before w's.
NoListedPredecessorUnbound(w) ==
    \A key \in ChainKeys :
        (HasStageIndex(w, key) /\ StageIndex(w, key) > 0) =>
            \A n \in PredecessorsByText(w, key) : Bound(n)

\* C14 as claimed: with the pods neither created, deleted nor unbound, no pod
\* passes the gate or becomes PLACED while a pod of its namespace and group
\* with index k - 1 on a stage key where it has index k > 0 is unbound, the
\* gate reading each key's predecessors with a List call of its own.
C14_NoPassWhilePredecessorUnbound ==
    [][\A p \in PodNames : PassesOrPlaced(p) => NoPredecessorUnbound(cluster[p])]_vars

\* C14 as amended: the same, for the pods of the namespace and group whose
\* label on the key is the decimal numeral of k - 1.
C14_NoPassWhileListedPredecessorUnbound ==
    [][\A p \in PodNames : PassesOrPlaced(p) => NoListedPredecessorUnbound(cluster[p])]_vars

\* C14 witness: a pod with an index > 0 on two stage keys has passed the
\* gate, each key's predecessors listed by a read of its own, and all of
\* them are bound.
C14_Witness ==
    \E p \in PodNames :
        /\ phase[p] = "READY"
        /\ gateCall # <<>> /\ gateCall[1].pod = p /\ gateCall[1].ready
        /\ \A key \in ChainKeys :
             /\ HasStageIndex(cluster[p], key)
             /\ StageIndex(cluster[p], key) > 0
             /\ PredecessorsByText(cluster[p], key) # {}
        /\ NoListedPredecessorUnbound(cluster[p])


(***************************************************************************)
(* Claims on group-level progress (FairSpecGate)                           *)
(***************************************************************************)

\* All the pods are in one namespace and one pipeline group.
OneGroup ==
    \A n \in PodNames :
        /\ Has(cluster[n].labels, "app-group")
        /\ \A o \in PodNames :
             cluster[o].namespace = cluster[n].namespace /\ SameGroup(cluster[n], cluster[o])

\* Every stage key with an index k > 0 on some pod has at least one pod with
\* index k - 1 on that key.
EveryStageHasPredecessor ==
    \A n \in PodNames, key \in ChainKeys :
        (HasStageIndex(cluster[n], key) /\ StageIndex(cluster[n], key) > 0) =>
            PredecessorsByIndex(cluster[n], key) # {}

AllPlaced == \A n \in PodNames : phase[n] = "PLACED"

\* One round of the gate over the pods S taken as bound: the pods the gate
\* opens for when exactly the pods of S are bound.
Admitted(S) ==
    {n \in PodNames :
        LET w == cluster[n]
        IN  /\ Has(w.labels, "app-group")
            /\ IntegerStages(w)
            /\ \A key \in ChainKeys :
                 (HasStageIndex(w, key) /\ StageIndex(w, key) > 0) =>
                     /\ PredecessorsByText(w, key) # {}
                     /\ PredecessorsByText(w, key) \subseteq S}

\* The pods that can be placed: the bound pods, and, round after round, the
\* pods the gate opens for once the pods of the rounds before are bound.  A
\* pod on a cycle of the predecessor relation, across one or several stage
\* keys, is in no round.
RECURSIVE PlaceableFrom(_)
PlaceableFrom(S) ==
    LET T == S \cup Admitted(S)
    IN  IF T = S THEN S ELSE PlaceableFrom(T)

Placeable == PlaceableFrom({n \in PodNames : Bound(n)})

\* C15 as claimed: a set of pods of one namespace and pipeline group in which
\* every stage key with an index k > 0 has a pod with index k - 1, under fair
\* re-checks and binding of the READY pods, is eventually placed whole; no
\* pods stay PENDING for ever waiting on each other across stage keys.
C15_AllEventuallyPlaced ==
    (OneGroup /\ EveryStageHasPredecessor) => <>AllPlaced

\* Every placeable pod is PLACED.
PlaceablePlaced == \A n \in Placeable : phase[n] = "PLACED"

\* Every pod that is not placeable is PENDING.
OthersPending == \A n \in PodNames \ Placeable : phase[n] = "PENDING"

\* C15 as amended: in a set of pods of one namespace and pipeline group,
\* under the same fairness, all the placeable pods are eventually PLACED, and
\* a pod that is not placeable (an unparsable stage value, no pod labelled
\* with the decimal numeral of the index before, or a cycle of predecessors
\* across stage keys) stays PENDING.  (Labels and namespaces never change:
\* OneGroup is true of all the states of a behaviour or of none.)
C15_PlaceableEventuallyPlaced ==
    /\ <>(OneGroup => PlaceablePlaced)
    /\ [](OneGroup => OthersPending)

\* C15 witness: in a set of pods of one namespace and group, all placeable,
\* the gate has just opened for the last pod, one with an index > 0 on the
\* two stage keys, all the other pods being PLACED.
C15_Witness ==
    /\ OneGroup
    /\ EveryStageHasPredecessor
    /\ Placeable = PodNames
    /\ \E n \in PodNames :
         /\ phase[n] = "READY"
         /\ gateCall # <<>> /\ gateCall[1].pod = n /\ gateCall[1].ready
         /\ \A o \in PodNames \ {n} : phase[o] = "PLACED"
         /\ \A key \in ChainKeys :
              /\ HasStageIndex(cluster[n], key)
              /\ StageIndex(cluster[n], key) > 0

=============================================================================
